---- MODULE Spec2Model ----
(***************************************************************************)
(* A model of the boot.scr custom editor: the legacy uImage codec          *)
(* (parseLegacyUImage / buildLegacyScriptImage with crc32) and the         *)
(* document life cycle of the editor provider (edit, undo/redo, save,      *)
(* revert).                                                                *)
(*                                                                         *)
(* Representation.  TLC integers are 32-bit signed, so a JavaScript        *)
(* number that holds an unsigned 32-bit value is the record                *)
(* [hi |-> bits 31..16, lo |-> bits 15..0].  A Uint8Array is a sequence of *)
(* bytes (index i of the array is element i + 1), a JavaScript string is   *)
(* the sequence of its UTF-16 code units.                                  *)
(***************************************************************************)
EXTENDS Integers, Sequences, FiniteSets, TLC

VARIABLES
  args,        \* the argument object of the buildLegacyScriptImage calls
  file,        \* the bytes of the container (build output / file on disk)
  prevOut,     \* the output of the previous build call with the same args
  parsed,      \* what the last parseLegacyUImage call did
  pc,          \* codec scenario position
  pokes,       \* number of bytes of the file changed outside the program
  docText,     \* BootScrDocument.state.text
  docHeader,   \* BootScrDocument.state.header
  isDirty,     \* BootScrDocument._isDirty
  disk,        \* the bytes stored at document.uri
  editStack,   \* the edits handed to VS Code (undo/redo closures)
  editPos,     \* number of edits of editStack currently applied
  savePc,      \* saveCustomDocument: "idle" or "writing" (awaiting writeFile)
  saveOut,     \* the bytes the suspended saveCustomDocument is writing
  revertPc,    \* revertCustomDocument: "idle" or "reading" (awaiting readFile)
  revertBytes  \* the bytes readFile delivered to the suspended revert

codecVars == <<args, file, prevOut, parsed, pc, pokes>>
editorVars == <<docText, docHeader, isDirty, disk, editStack, editPos,
                savePc, saveOut, revertPc, revertBytes>>
vars == <<args, file, prevOut, parsed, pc, pokes, docText, docHeader, isDirty,
          disk, editStack, editPos, savePc, saveOut, revertPc, revertBytes>>

(***************************************************************************)
(* Bounds of the model.                                                    *)
(***************************************************************************)
MaxScriptLen == 2
MaxPokes == 1
MaxEdits == 1

(***************************************************************************)
(* Unsigned 32-bit numbers and the bit operations of the source.           *)
(***************************************************************************)
U32(n) == [hi |-> (n \div 65536) % 65536, lo |-> n % 65536]

RECURSIVE XorBits(_, _, _)
XorBits(a, b, n) ==
  IF n = 0 THEN 0
  ELSE (((a % 2) + (b % 2)) % 2) + 2 * XorBits(a \div 2, b \div 2, n - 1)

XorNibble == [a \in 0..15 |-> [b \in 0..15 |-> XorBits(a, b, 4)]]

XorByte(a, b) == XorNibble[a % 16][b % 16] + 16 * XorNibble[a \div 16][b \div 16]

Xor16(a, b) == XorByte(a % 256, b % 256) + 256 * XorByte(a \div 256, b \div 256)

\* a ^ b on unsigned 32-bit values
Xor32(a, b) == [hi |-> Xor16(a.hi, b.hi), lo |-> Xor16(a.lo, b.lo)]

\* c >>> n for 0 < n < 16
Shr(c, n) ==
  [hi |-> c.hi \div (2^n), lo |-> (c.hi % (2^n)) * (2^(16 - n)) + c.lo \div (2^n)]

HEADER_SIZE == 64
TYPE_SCRIPT == 6
COMP_NONE == 0
UIMAGE_MAGIC == [hi |-> 9989, lo |-> 6486]    \* 0x27051956

readU32BE(buf, off) ==
  [hi |-> buf[off + 1] * 256 + buf[off + 2], lo |-> buf[off + 3] * 256 + buf[off + 4]]

writeU32BE(buf, off, val) ==
  [buf EXCEPT ![off + 1] = (val.hi \div 256) % 256,
              ![off + 2] = val.hi % 256,
              ![off + 3] = (val.lo \div 256) % 256,
              ![off + 4] = val.lo % 256]

RECURSIVE Zeros(_)
\* new Uint8Array(n)
Zeros(n) == IF n = 0 THEN <<>> ELSE <<0>> \o Zeros(n - 1)

\* Uint8Array.prototype.set(src, off), for a src that fits
SetBytes(buf, src, off) ==
  SubSeq(buf, 1, off) \o src \o SubSeq(buf, off + Len(src) + 1, Len(buf))

\* Uint8Array.prototype.slice(from, to), 0 <= from
Slice(buf, from, to) ==
  SubSeq(buf, from + 1, IF to > Len(buf) THEN Len(buf) ELSE to)

(***************************************************************************)
(* CRC32.                                                                  *)
(***************************************************************************)
Poly == [hi |-> 60856, lo |-> 33568]          \* 0xedb88320
AllOnes == [hi |-> 65535, lo |-> 65535]       \* 0xffffffff

RECURSIVE TableEntry(_, _)
TableEntry(c, k) ==
  IF k = 0 THEN c
  ELSE TableEntry(IF c.lo % 2 = 1 THEN Xor32(Poly, Shr(c, 1)) ELSE Shr(c, 1), k - 1)

CRC32_TABLE == [i \in 0..255 |-> TableEntry(U32(i), 8)]

\* one iteration of the loop of crc32
crcStep(c, b) == Xor32(CRC32_TABLE[XorByte(c.lo % 256, b)], Shr(c, 8))

RECURSIVE crcLoop(_, _, _, _)
\* the loop of crc32 over data[lo..hi] (1-based) from register c; the range
\* is split in two halves run one after the other to bound the evaluation depth
crcLoop(data, lo, hi, c) ==
  IF lo > hi THEN c
  ELSE IF lo = hi THEN crcStep(c, data[lo])
  ELSE LET mid == (lo + hi) \div 2
       IN CHOOSE r \in {crcLoop(data, mid + 1, hi, v) :
                          v \in {crcLoop(data, lo, mid, c)}} : TRUE

crc32(data) == Xor32(crcLoop(data, 1, Len(data), AllOnes), AllOnes)

(***************************************************************************)
(* The platform's text codecs, as the source uses them.                    *)
(***************************************************************************)
Replacement == 65533                           \* U+FFFD

IsHighSurrogate(u) == u >= 55296 /\ u <= 56319
IsLowSurrogate(u) == u >= 56320 /\ u <= 57343

\* the UTF-8 bytes of one scalar value
Utf8Bytes(cp) ==
  IF cp < 128 THEN <<cp>>
  ELSE IF cp < 2048 THEN <<192 + (cp \div 64), 128 + (cp % 64)>>
  ELSE IF cp < 65536
    THEN <<224 + (cp \div 4096), 128 + ((cp \div 64) % 64), 128 + (cp % 64)>>
  ELSE <<240 + (cp \div 262144), 128 + ((cp \div 4096) % 64),
         128 + ((cp \div 64) % 64), 128 + (cp % 64)>>

RECURSIVE TextEncode(_)
\* new TextEncoder().encode(s): a surrogate pair is one scalar value, a lone
\* surrogate is encoded as U+FFFD
TextEncode(s) ==
  IF s = <<>> THEN <<>>
  ELSE IF IsHighSurrogate(s[1]) /\ Len(s) >= 2 /\ IsLowSurrogate(s[2])
    THEN Utf8Bytes(65536 + (s[1] - 55296) * 1024 + (s[2] - 56320))
           \o TextEncode(SubSeq(s, 3, Len(s)))
  ELSE IF IsHighSurrogate(s[1]) \/ IsLowSurrogate(s[1])
    THEN Utf8Bytes(Replacement) \o TextEncode(Tail(s))
  ELSE Utf8Bytes(s[1]) \o TextEncode(Tail(s))

\* the UTF-16 code units of one scalar value
CodeUnits(cp) ==
  IF cp < 65536 THEN <<cp>>
  ELSE <<55296 + ((cp - 65536) \div 1024), 56320 + ((cp - 65536) % 1024)>>

RECURSIVE Utf8Decode(_, _, _, _, _, _, _)
\* the UTF-8 decoder of the Encoding Standard (error mode "replacement") from
\* byte i on: needed/seen/cp/lower/upper are its "bytes needed", "bytes
\* seen", "code point" and lower/upper boundary
Utf8Decode(b, i, needed, seen, cp, lower, upper) ==
  IF i > Len(b) THEN (IF needed # 0 THEN <<Replacement>> ELSE <<>>)
  ELSE IF needed = 0 THEN
    IF b[i] <= 127 THEN <<b[i]>> \o Utf8Decode(b, i + 1, 0, 0, 0, 128, 191)
    ELSE IF b[i] >= 194 /\ b[i] <= 223
      THEN Utf8Decode(b, i + 1, 1, 0, b[i] % 32, 128, 191)
    ELSE IF b[i] >= 224 /\ b[i] <= 239
      THEN Utf8Decode(b, i + 1, 2, 0, b[i] % 16,
                      IF b[i] = 224 THEN 160 ELSE 128,
                      IF b[i] = 237 THEN 159 ELSE 191)
    ELSE IF b[i] >= 240 /\ b[i] <= 244
      THEN Utf8Decode(b, i + 1, 3, 0, b[i] % 8,
                      IF b[i] = 240 THEN 144 ELSE 128,
                      IF b[i] = 244 THEN 143 ELSE 191)
    ELSE <<Replacement>> \o Utf8Decode(b, i + 1, 0, 0, 0, 128, 191)
  ELSE IF b[i] < lower \/ b[i] > upper
    THEN <<Replacement>> \o Utf8Decode(b, i, 0, 0, 0, 128, 191)
  ELSE IF seen + 1 = needed
    THEN CodeUnits(cp * 64 + (b[i] % 64)) \o Utf8Decode(b, i + 1, 0, 0, 0, 128, 191)
  ELSE Utf8Decode(b, i + 1, needed, seen + 1, cp * 64 + (b[i] % 64), 128, 191)

\* new TextDecoder("utf-8").decode(bytes): not fatal, and (ignoreBOM is
\* false) a leading byte order mark EF BB BF is not part of the output
TextDecode(bytes) ==
  IF Len(bytes) >= 3 /\ bytes[1] = 239 /\ bytes[2] = 187 /\ bytes[3] = 191
  THEN Utf8Decode(bytes, 4, 0, 0, 0, 128, 191)
  ELSE Utf8Decode(bytes, 1, 0, 0, 0, 128, 191)

\* windows-1252, bytes 0x80..0x9F
Windows1252High ==
  <<8364, 129, 8218, 402, 8222, 8230, 8224, 8225, 710, 8240, 352, 8249, 338,
    141, 381, 143, 144, 8216, 8217, 8220, 8221, 8226, 8211, 8212, 732, 8482,
    353, 8250, 339, 157, 382, 376>>

RECURSIVE AsciiDecode(_)
\* new TextDecoder("ascii").decode(bytes): the label "ascii" names the
\* windows-1252 decoder, one character per byte
AsciiDecode(bytes) ==
  IF bytes = <<>> THEN <<>>
  ELSE <<IF bytes[1] >= 128 /\ bytes[1] <= 159
         THEN Windows1252High[bytes[1] - 127] ELSE bytes[1]>>
       \o AsciiDecode(Tail(bytes))

\* WhiteSpace and LineTerminator code units of String.prototype.trim
IsWhiteSpace(u) ==
  \/ u \in {9, 10, 11, 12, 13, 32, 160, 5760, 8232, 8233, 8239, 8287, 12288, 65279}
  \/ (u >= 8192 /\ u <= 8202)

RECURSIVE TrimStart(_)
TrimStart(s) ==
  IF s # <<>> /\ IsWhiteSpace(s[1]) THEN TrimStart(Tail(s)) ELSE s

RECURSIVE TrimEnd(_)
TrimEnd(s) ==
  IF s # <<>> /\ IsWhiteSpace(s[Len(s)]) THEN TrimEnd(SubSeq(s, 1, Len(s) - 1)) ELSE s

\* String.prototype.trim
Trim(s) == TrimEnd(TrimStart(s))

RECURSIVE IndexOf(_, _, _)
\* bytes.indexOf(x), searched from 0-based index i on; -1 when absent
IndexOf(bytes, x, i) ==
  IF i >= Len(bytes) THEN -1
  ELSE IF bytes[i + 1] = x THEN i
  ELSE IndexOf(bytes, x, i + 1)

\* encodeName cutting the name one byte short: raw.slice(0, 31)
encodeName_Slice31(name) ==
  LET out == Zeros(32)
      raw == TextEncode(name)
  IN SetBytes(out, Slice(raw, 0, 31), 0)

decodeName(bytes) ==
  LET nul == IndexOf(bytes, 0, 0)
      end == IF nul >= 0 THEN nul ELSE Len(bytes)
  IN Trim(AsciiDecode(Slice(bytes, 0, end)))

encodeName(name) ==
  LET out == Zeros(32)
      raw == TextEncode(name)
  IN SetBytes(out, Slice(raw, 0, 32), 0)

(***************************************************************************)
(* parseLegacyUImage.                                                      *)
(***************************************************************************)
\* the header object literal of parseLegacyUImage
decodeHeader(buf) ==
  [magic |-> readU32BE(buf, 0),
   hcrc |-> readU32BE(buf, 4),
   timestamp |-> readU32BE(buf, 8),
   size |-> readU32BE(buf, 12),
   loadAddr |-> readU32BE(buf, 16),
   entryPoint |-> readU32BE(buf, 20),
   dcrc |-> readU32BE(buf, 24),
   os |-> buf[29],
   arch |-> buf[30],
   type |-> buf[31],
   comp |-> buf[32],
   name |-> decodeName(Slice(buf, 32, 64))]

\* the size check with >= for >: a payload that ends at the end of the file
\* is refused
payloadExceeds_Inclusive(payloadStart, size, length) ==
  size.hi > 0 \/ payloadStart + size.lo >= length

\* payloadEnd > buf.length, where payloadEnd = payloadStart + header.size;
\* every buffer of the model is shorter than 65536 bytes, which a size with
\* a bit above bit 15 exceeds
payloadExceeds(payloadStart, size, length) ==
  size.hi > 0 \/ payloadStart + size.lo > length

\* the integrity check with one warning per mismatching checksum
crcWarnings_PerChecksum(header, calcDcrc, calcHcrc) ==
  (IF calcDcrc # header.dcrc THEN 1 ELSE 0) + (IF calcHcrc # header.hcrc THEN 1 ELSE 0)

\* the number of window.showWarningMessage calls of the integrity check
crcWarnings(header, calcDcrc, calcHcrc) ==
  IF calcDcrc # header.dcrc \/ calcHcrc # header.hcrc THEN 1 ELSE 0

\* a call that throws: the error (named as the specification names it), and
\* the warnings shown before the throw
Threw(err, w) ==
  [status |-> "threw", error |-> err, warnings |-> w]

\* a call that returns { header, script }
Returned(header, script, w) ==
  [status |-> "returned", error |-> "none", warnings |-> w,
   header |-> header, script |-> script]

NotCalled == [status |-> "notcalled", error |-> "none", warnings |-> 0]

parseLegacyUImage(buf) ==
  IF Len(buf) < HEADER_SIZE
    THEN Threw("TooSmall", 0)          \* "File too small to be a legacy uImage."
  ELSE IF readU32BE(buf, 0) # UIMAGE_MAGIC
    THEN Threw("BadMagic", 0)          \* "Not a legacy uImage (bad magic)."
  ELSE
    LET header == decodeHeader(buf)
        payloadStart == HEADER_SIZE
    IN IF payloadExceeds(payloadStart, header.size, Len(buf))
         THEN Threw("PayloadOverrun", 0)  \* "Declared payload size ... exceeds file length."
       ELSE
         LET payloadEnd == payloadStart + header.size.lo
             payload == Slice(buf, payloadStart, payloadEnd)
             calcDcrc == crc32(payload)
             hdrCopy == writeU32BE(Slice(buf, 0, HEADER_SIZE), 4, U32(0))
             calcHcrc == crc32(hdrCopy)
             w == crcWarnings(header, calcDcrc, calcHcrc)
         IN IF Len(payload) < 8
              THEN Threw("MissingWrapper", w)   \* "Payload size less than 8"
            ELSE Returned(header, TextDecode(Slice(payload, 8, Len(payload))), w)

(***************************************************************************)
(* buildLegacyScriptImage.                                                 *)
(***************************************************************************)
\* an absent baseHeader
Undefined == [undefined |-> TRUE]

HeaderFields == {"loadAddr", "entryPoint", "os", "arch", "type", "comp", "name"}

\* the falsy values of the header fields: 0 and ""
Falsy(field, v) ==
  IF field \in {"loadAddr", "entryPoint"} THEN v = [hi |-> 0, lo |-> 0]
  ELSE IF field = "name" THEN v = <<>>
  ELSE v = 0

\* obj?.field || default: a present 0 or "" falls back to the default too
Coalesce_Or(obj, field, default) ==
  IF obj # Undefined /\ field \in DOMAIN obj /\ ~Falsy(field, obj[field])
  THEN obj[field] ELSE default

\* obj?.field ?? default, for a Partial<UImageHeader> obj: a record holding
\* the fields that are present
Coalesce(obj, field, default) ==
  IF obj # Undefined /\ field \in DOMAIN obj THEN obj[field] ELSE default

\* Math.floor(Date.now() / 1000), now in milliseconds
Timestamp(now) == U32(now \div 1000)

\* the payload with the string's length (script.length, in UTF-16 code
\* units) in the length field, for the length of its bytes
scriptPayload_CharLen(script) ==
  LET scriptBytes == TextEncode(script)
      p0 == Zeros(8 + Len(scriptBytes))
      p1 == writeU32BE(p0, 0, U32(Len(script)))
      p2 == writeU32BE(p1, 4, U32(0))
  IN SetBytes(p2, scriptBytes, 8)

\* the payload: [u32 len][u32 0][script bytes]
scriptPayload(script) ==
  LET scriptBytes == TextEncode(script)
      p0 == Zeros(8 + Len(scriptBytes))
      p1 == writeU32BE(p0, 0, U32(Len(scriptBytes)))
      p2 == writeU32BE(p1, 4, U32(0))
  IN SetBytes(p2, scriptBytes, 8)

\* headerBuf from the time stamp on (h2: magic and the hcrc placeholder
\* written), before the header CRC is computed
headerFrom(h2, a, tsOff, sizeOff, now, payload) ==
  LET h3 == writeU32BE(h2, tsOff, Timestamp(now))
      h4 == writeU32BE(h3, sizeOff, U32(Len(payload)))
      loadAddr == Coalesce(a.baseHeader, "loadAddr", a.defaultLoadAddr)
      entryPoint == Coalesce(a.baseHeader, "entryPoint", a.defaultEntryPoint)
      h5 == writeU32BE(h4, 16, loadAddr)
      h6 == writeU32BE(h5, 20, entryPoint)
      dcrc == crc32(payload)
      h7 == writeU32BE(h6, 24, dcrc)
      h8 == [h7 EXCEPT ![29] = Coalesce(a.baseHeader, "os", 5) % 256,
                       ![30] = Coalesce(a.baseHeader, "arch", 2) % 256,
                       ![31] = Coalesce(a.baseHeader, "type", TYPE_SCRIPT) % 256,
                       ![32] = Coalesce(a.baseHeader, "comp", COMP_NONE) % 256]
      name == Coalesce(a.baseHeader, "name", a.defaultName)
  IN SetBytes(h8, encodeName(name), 32)

\* headerFields with the offsets of the time stamp and the size exchanged
headerFields_SwappedTimeSize(a, now, payload) ==
  LET h0 == Zeros(HEADER_SIZE)
      h1 == writeU32BE(h0, 0, UIMAGE_MAGIC)
      h2 == writeU32BE(h1, 4, U32(0))
  IN headerFrom(h2, a, 12, 8, now, payload)

\* headerBuf before the header CRC is computed
headerFields(a, now, payload) ==
  LET h0 == Zeros(HEADER_SIZE)
      h1 == writeU32BE(h0, 0, UIMAGE_MAGIC)
      h2 == writeU32BE(h1, 4, U32(0))
  IN headerFrom(h2, a, 8, 12, now, payload)

buildLegacyScriptImage(a, now) ==
  LET payload == scriptPayload(a.script)
      headerBuf == headerFields(a, now, payload)
      hcrc == crc32(headerBuf)
      patched == writeU32BE(headerBuf, 4, hcrc)
      out == Zeros(HEADER_SIZE + Len(payload))
  IN SetBytes(SetBytes(out, patched, 0), payload, HEADER_SIZE)

(***************************************************************************)
(* Inputs of the codec scenarios.                                          *)
(***************************************************************************)
RECURSIVE Strings(_, _)
\* the strings of at most n code units over an alphabet
Strings(alphabet, n) ==
  IF n = 0 THEN {<<>>}
  ELSE Strings(alphabet, n - 1)
       \cup {Append(s, c) : s \in Strings(alphabet, n - 1), c \in alphabet}

RECURSIVE Repeat(_, _)
Repeat(c, n) == IF n = 0 THEN <<>> ELSE <<c>> \o Repeat(c, n - 1)

\* "a", U+00E9, U+FEFF, and the two halves of U+1F600
ScriptAlphabet == {97, 233, 65279, 55357, 56832}
Scripts == Strings(ScriptAlphabet, MaxScriptLen)

\* Date.now() values: two in the same second, one in the next
Clocks == {1000, 1999, 2000}

BootScript == <<98, 111, 111, 116, 32, 115, 99, 114, 105, 112, 116>>  \* "boot script"

HZero ==
  [loadAddr |-> U32(0), entryPoint |-> U32(0), os |-> 0, arch |-> 0, type |-> 0,
   comp |-> 0, name |-> <<>>]

HTypical ==
  [loadAddr |-> [hi |-> 32768, lo |-> 32768], entryPoint |-> [hi |-> 65535, lo |-> 65535],
   os |-> 17, arch |-> 22, type |-> 2, comp |-> 255, name |-> <<117, 45, 98>>]

\* names: 32 bytes, 33 bytes, a space at the 32nd byte, a leading space, a
\* NUL inside, U+00E9, and U+00E9 seventeen times (34 bytes)
NameCases ==
  {Repeat(110, 32), Repeat(110, 32) \o <<109>>, Repeat(110, 31) \o <<32, 109>>,
   <<32, 120>>, <<120, 0, 121>>, <<233>>, Repeat(233, 17), <<120>>}

DefaultCases ==
  {[defaultName |-> BootScript, defaultLoadAddr |-> U32(0), defaultEntryPoint |-> U32(0)],
   [defaultName |-> <<100>>, defaultLoadAddr |-> [hi |-> 16384, lo |-> 1],
    defaultEntryPoint |-> [hi |-> 16384, lo |-> 2]]}

\* the fields S of header h: a Partial<UImageHeader>
Restrict(h, S) == [f \in S |-> h[f]]

MkArgs(script, baseHeader, d) ==
  [script |-> script, baseHeader |-> baseHeader, defaultName |-> d.defaultName,
   defaultLoadAddr |-> d.defaultLoadAddr, defaultEntryPoint |-> d.defaultEntryPoint]

BuildInputs ==
  {MkArgs(s, b, d) : s \in Scripts, b \in {Undefined, HTypical}, d \in DefaultCases}
  \cup {MkArgs(<<97>>, Restrict(h, S), d) :
          h \in {HZero, HTypical}, S \in SUBSET HeaderFields, d \in DefaultCases}
  \cup {MkArgs(<<97>>, [HTypical EXCEPT !.name = n], d) :
          n \in NameCases, d \in DefaultCases}

\* the editor variables, while only the codec is exercised
EditorIdle ==
  /\ docText = <<>> /\ docHeader = Undefined /\ isDirty = FALSE /\ disk = <<>>
  /\ editStack = <<>> /\ editPos = 0 /\ savePc = "idle" /\ saveOut = <<>>
  /\ revertPc = "idle" /\ revertBytes = <<>>

(***************************************************************************)
(* Codec scenario 1: build, build again, parse the output.                 *)
(***************************************************************************)
InitBuild ==
  /\ args \in BuildInputs
  /\ file = <<>> /\ prevOut = <<>> /\ parsed = NotCalled /\ pc = "start" /\ pokes = 0
  /\ EditorIdle

\* a buildLegacyScriptImage(args) call at clock value now
Build(now) ==
  /\ pc = "start"
  /\ file' = buildLegacyScriptImage(args, now)
  /\ pc' = "built"
  /\ UNCHANGED <<args, prevOut, parsed, pokes>>
  /\ UNCHANGED editorVars

\* a second buildLegacyScriptImage(args) call with the same args
Rebuild(now) ==
  /\ pc = "built"
  /\ prevOut' = file
  /\ file' = buildLegacyScriptImage(args, now)
  /\ pc' = "rebuilt"
  /\ UNCHANGED <<args, parsed, pokes>>
  /\ UNCHANGED editorVars

\* a parseLegacyUImage(file) call
Parse ==
  /\ pc \in {"built", "rebuilt", "file"}
  /\ parsed' = parseLegacyUImage(file)
  /\ pc' = "parsed"
  /\ UNCHANGED <<args, file, prevOut, pokes>>
  /\ UNCHANGED editorVars

NextBuild ==
  \/ \E now \in Clocks : Build(now)
  \/ \E now \in Clocks : Rebuild(now)
  \/ Parse

SpecBuild == InitBuild /\ [][NextBuild]_vars

(***************************************************************************)
(* Properties of the build scenario.                                       *)
(***************************************************************************)
\* baseHeader holds field f
Has(f) == args.baseHeader # Undefined /\ f \in DOMAIN args.baseHeader

\* a header with every metadata field
FullHeader == args.baseHeader # Undefined /\ DOMAIN args.baseHeader = HeaderFields

\* no unpaired surrogate in s: s is text that UTF-8 can hold
WellFormed(s) ==
  \A i \in 1..Len(s) :
    /\ IsHighSurrogate(s[i]) => (i < Len(s) /\ IsLowSurrogate(s[i + 1]))
    /\ IsLowSurrogate(s[i]) => (i > 1 /\ IsHighSurrogate(s[i - 1]))

\* a name the 32-byte NUL-padded ASCII field holds as it is: ASCII, no NUL,
\* at most 32 characters, no white space at either end
ValidName(n) ==
  /\ Len(n) <= 32
  /\ \A i \in 1..Len(n) : n[i] >= 1 /\ n[i] <= 127
  /\ (n # <<>> => ~IsWhiteSpace(n[1]) /\ ~IsWhiteSpace(n[Len(n)]))

\* the bytes of b before its first 0
NulTrim(b) ==
  IF \E i \in 1..Len(b) : b[i] = 0
  THEN SubSeq(b, 1, (CHOOSE i \in 1..Len(b) : b[i] = 0 /\ \A j \in 1..(i - 1) : b[j] # 0) - 1)
  ELSE b

\* the bytes of the script of the build call
ScriptBytes == TextEncode(args.script)

\* C1 (as claimed): parsing the output of a build returns the script text and
\* the load address, entry point, name, os, arch, type and comp of the
\* header the build was given, for every text and every valid header.
C1_RoundTrip ==
  (pc = "parsed" /\ FullHeader /\ ValidName(args.baseHeader.name) /\ WellFormed(args.script))
    => /\ parsed.status = "returned"
       /\ parsed.script = args.script
       /\ \A f \in HeaderFields : parsed.header[f] = args.baseHeader[f]

\* C2: every output of a build is a well-formed container with valid
\* checksums: magic, dataSize = 8 + script bytes = length - 64, the script
\* length at 64..67, zero at 68..71, dataCrc over [64, end), headerCrc over
\* the header with its headerCrc field zeroed; parsing it neither fails nor
\* warns.
C2_BuildWellFormed ==
  /\ pc \in {"built", "rebuilt"} =>
       /\ Len(file) = 64 + 8 + Len(ScriptBytes)
       /\ SubSeq(file, 1, 4) = <<39, 5, 25, 86>>
       /\ readU32BE(file, 12) = U32(8 + Len(ScriptBytes))
       /\ readU32BE(file, 64) = U32(Len(ScriptBytes))
       /\ SubSeq(file, 69, 72) = <<0, 0, 0, 0>>
       /\ readU32BE(file, 24) = crc32(SubSeq(file, 65, Len(file)))
       /\ readU32BE(file, 4)
            = crc32(SubSeq(file, 1, 4) \o <<0, 0, 0, 0>> \o SubSeq(file, 9, 64))
  /\ pc = "parsed" => (parsed.status = "returned" /\ parsed.warnings = 0)

\* C2 witness: a two-byte character and a base header, built and parsed
C2_Witness ==
  /\ pc = "parsed" /\ args.script = <<233, 97>> /\ args.baseHeader = HTypical
  /\ parsed.status = "returned" /\ parsed.warnings = 0 /\ Len(file) = 75

\* C6 (as claimed): two builds with the same arguments differ at most in the
\* time stamp field, offsets 8..11.
C6_RebuildSameOutsideTime ==
  prevOut # <<>> =>
    /\ Len(file) = Len(prevOut)
    /\ \A i \in 1..Len(file) : (i < 9 \/ i > 12) => file[i] = prevOut[i]

\* C6 (amended): two builds with the same arguments have the same length
\* and differ at most in the header CRC field, offsets 4..7, and the time
\* stamp field, offsets 8..11.
C6_RebuildSameOutsideCrcAndTime ==
  prevOut # <<>> =>
    /\ Len(file) = Len(prevOut)
    /\ \A i \in 1..Len(file) : (i < 5 \/ i > 12) => file[i] = prevOut[i]

\* C6 witness: two builds in different seconds
C6_Witness ==
  /\ pc = "rebuilt" /\ SubSeq(file, 9, 12) # SubSeq(prevOut, 9, 12)
  /\ args.baseHeader = HTypical

\* the 32 bytes of the name field for name n
NameField(n) ==
  IF Len(TextEncode(n)) >= 32 THEN SubSeq(TextEncode(n), 1, 32)
  ELSE TextEncode(n) \o Zeros(32 - Len(TextEncode(n)))

\* C7: each header field is written from baseHeader when baseHeader holds
\* it (a 0 or an empty name included) and from the default otherwise
\* (defaultLoadAddr, defaultEntryPoint, 5, 2, 6, 0, defaultName); with no
\* baseHeader the output decodes to os 5, arch 2, type 6, comp 0 and the
\* default name.
C7_FieldFallback ==
  /\ pc \in {"built", "rebuilt"} =>
       /\ readU32BE(file, 16)
            = (IF Has("loadAddr") THEN args.baseHeader.loadAddr ELSE args.defaultLoadAddr)
       /\ readU32BE(file, 20)
            = (IF Has("entryPoint") THEN args.baseHeader.entryPoint ELSE args.defaultEntryPoint)
       /\ file[29] = (IF Has("os") THEN args.baseHeader.os ELSE 5)
       /\ file[30] = (IF Has("arch") THEN args.baseHeader.arch ELSE 2)
       /\ file[31] = (IF Has("type") THEN args.baseHeader.type ELSE 6)
       /\ file[32] = (IF Has("comp") THEN args.baseHeader.comp ELSE 0)
       /\ SubSeq(file, 33, 64)
            = NameField(IF Has("name") THEN args.baseHeader.name ELSE args.defaultName)
  /\ (pc = "parsed" /\ args.baseHeader = Undefined) =>
       /\ parsed.status = "returned"
       /\ parsed.header.os = 5 /\ parsed.header.arch = 2
       /\ parsed.header.type = 6 /\ parsed.header.comp = 0
       /\ parsed.header.name = args.defaultName
       /\ parsed.header.loadAddr = args.defaultLoadAddr
       /\ parsed.header.entryPoint = args.defaultEntryPoint

\* C7 witness: a base header holding a 0 os and an empty name and nothing
\* else, with defaults that differ from them
C7_Witness ==
  /\ pc = "built" /\ args.baseHeader = Restrict(HZero, {"os", "name"})
  /\ args.defaultName = <<100>> /\ file[29] = 0 /\ file[30] = 2 /\ file[33] = 0

\* the name field and the payload, as C8 states them: the first 32 bytes of
\* the name's encoding (zero-padded when shorter), nothing from offset 64 on
C8_Written ==
  /\ SubSeq(file, 33, 64) = NameField(args.baseHeader.name)
  /\ SubSeq(file, 65, Len(file))
       = <<0, 0, 0, Len(ScriptBytes), 0, 0, 0, 0>> \o ScriptBytes

Ascii(n) == \A i \in 1..Len(n) : n[i] >= 1 /\ n[i] <= 127

ParseInputs ==
  {MkArgs(s, Undefined,
          [defaultName |-> BootScript, defaultLoadAddr |-> U32(0),
           defaultEntryPoint |-> U32(0)]) : s \in {<<>>, <<97>>, <<233>>}}

\* offsets of which one bit is flipped: magic, hcrc, dataSize, dcrc, os,
\* name, the wrapper's zero word, the first script byte
FlipOffsets == {0, 7, 15, 27, 28, 32, 71, 72}

\* offset and value of the bytes that are set: dataSize 4 and 0, a dataSize
\* above 2^31, a script_len of 200, a byte no UTF-8 sequence holds
SetBytesAt == {<<15, 4>>, <<15, 0>>, <<12, 128>>, <<67, 200>>, <<72, 255>>}

\* lengths the file is cut to
TruncatedLengths == {10, 64, 68, 72}

InitParse ==
  /\ args \in ParseInputs
  /\ file = buildLegacyScriptImage(args, 1000)
  /\ prevOut = <<>> /\ parsed = NotCalled /\ pc = "file" /\ pokes = 0
  /\ EditorIdle

\* one bit of the byte at offset off changes
FlipBit(off) ==
  /\ pc = "file" /\ pokes < MaxPokes /\ off < Len(file)
  /\ file' = [file EXCEPT ![off + 1] = XorByte(file[off + 1], 1)]
  /\ pokes' = pokes + 1
  /\ UNCHANGED <<args, prevOut, parsed, pc>>
  /\ UNCHANGED editorVars

\* the byte at offset off becomes val
SetByte(off, val) ==
  /\ pc = "file" /\ pokes < MaxPokes /\ off < Len(file) /\ file[off + 1] # val
  /\ file' = [file EXCEPT ![off + 1] = val]
  /\ pokes' = pokes + 1
  /\ UNCHANGED <<args, prevOut, parsed, pc>>
  /\ UNCHANGED editorVars

\* the file is cut to its first n bytes
Truncate(n) ==
  /\ pc = "file" /\ n < Len(file)
  /\ file' = SubSeq(file, 1, n)
  /\ UNCHANGED <<args, prevOut, parsed, pc, pokes>>
  /\ UNCHANGED editorVars

\* buf with both checksums recomputed the way the format defines them
WithChecksums(buf) ==
  LET size == readU32BE(buf, 12)
      d == writeU32BE(buf, 24, crc32(SubSeq(buf, 65, 64 + size.lo)))
      h == writeU32BE(d, 4, U32(0))
  IN writeU32BE(h, 4, crc32(SubSeq(h, 1, 64)))

\* the file's checksums are recomputed (a tool rewrote the header)
FixChecksums ==
  /\ pc = "file" /\ Len(file) >= 64
  /\ ~payloadExceeds(64, readU32BE(file, 12), Len(file))
  /\ file' = WithChecksums(file)
  /\ file' # file
  /\ UNCHANGED <<args, prevOut, parsed, pc, pokes>>
  /\ UNCHANGED editorVars

NextParse ==
  \/ \E off \in FlipOffsets : FlipBit(off)
  \/ \E p \in SetBytesAt : SetByte(p[1], p[2])
  \/ \E n \in TruncatedLengths : Truncate(n)
  \/ FixChecksums
  \/ Parse

SpecParse == InitParse /\ [][NextParse]_vars

(***************************************************************************)
(* Properties of the parse scenario.                                       *)
(***************************************************************************)
\* the dataSize field of the file, when below 65536
SmallSize == file[15] * 256 + file[16]

\* the dataSize field is 65536 or more
HugeSize == file[13] > 0 \/ file[14] > 0

\* the structural error the specification assigns to the file, in its order
StructuralError ==
  IF Len(file) < 64 THEN "TooSmall"
  ELSE IF SubSeq(file, 1, 4) # <<39, 5, 25, 86>> THEN "BadMagic"
  ELSE IF HugeSize \/ 64 + SmallSize > Len(file) THEN "PayloadOverrun"
  ELSE IF SmallSize < 8 THEN "MissingWrapper"
  ELSE "none"

ChecksumsMatch == WithChecksums(file) = file

\* the seven metadata fields of a header
Metadata(h) == [f \in HeaderFields |-> h[f]]

\* C4: for a structurally valid buffer whose stored dataCrc or headerCrc is
\* not the recomputed one, parseLegacyUImage returns the script and the
\* header metadata it returns for the same buffer with matching checksums,
\* and warns exactly once; with matching checksums it does not warn.
C4_ChecksumTolerance ==
  (pc = "parsed" /\ StructuralError = "none") =>
    /\ parsed.status = "returned"
    /\ parsed.warnings = (IF ChecksumsMatch THEN 0 ELSE 1)
    /\ parsed.script = parseLegacyUImage(WithChecksums(file)).script
    /\ Metadata(parsed.header) = Metadata(parseLegacyUImage(WithChecksums(file)).header)
    /\ parsed.header.size = parseLegacyUImage(WithChecksums(file)).header.size
    /\ parsed.header.timestamp = parseLegacyUImage(WithChecksums(file)).header.timestamp

\* C4 witness: both stored checksums are wrong (a flipped bit in the dcrc
\* field), and the parse returned with one warning
C4_Witness ==
  /\ pc = "parsed" /\ StructuralError = "none" /\ parsed.warnings = 1
  /\ readU32BE(file, 24) # crc32(SubSeq(file, 65, 64 + SmallSize))
  /\ readU32BE(file, 4) # readU32BE(WithChecksums(file), 4)
  /\ parsed.script = args.script

\* C5 (as the README states it): a container is accepted only if bytes
\* 68..71 are zero and script_len + 8 <= dataSize.
C5_StrictWrapper ==
  (pc = "parsed" /\ parsed.status = "returned") =>
    /\ SubSeq(file, 69, 72) = <<0, 0, 0, 0>>
    /\ file[65] = 0 /\ file[66] = 0
    /\ file[67] * 256 + file[68] + 8 <= SmallSize

\* C9 (as claimed): a call that warns about a checksum returns a header and
\* a script; no call warns and then throws.
C9_WarningImpliesResult ==
  (pc = "parsed" /\ parsed.warnings > 0) => parsed.status = "returned"

(***************************************************************************)
(* The editor: one BootScrDocument and the provider's handlers.  A handler *)
(* runs to its next await in one step; saveCustomDocument is suspended at  *)
(* writeFile and revertCustomDocument at readFile, and other handlers run  *)
(* in between.  One save or revert is in flight at a time.                 *)
(***************************************************************************)
\* the texts of the webview's textarea: "", "a", "b"
EditorTexts == Strings({97, 98}, 1)

\* Date.now() at a save: after the file was made
SaveClocks == {2000}

\* the codec variables, while the editor runs
CodecIdle ==
  /\ file = <<>> /\ prevOut = <<>> /\ parsed = NotCalled /\ pc = "editor" /\ pokes = 0

\* BootScrDocument.create on a boot.scr a build wrote, then the constructor
InitEditor ==
  /\ args \in {MkArgs(t, Undefined,
                 [defaultName |-> BootScript, defaultLoadAddr |-> U32(0),
                  defaultEntryPoint |-> U32(0)]) : t \in EditorTexts}
  /\ CodecIdle
  /\ disk = buildLegacyScriptImage(args, 1000)
  /\ docText = parseLegacyUImage(disk).script
  /\ docHeader = parseLegacyUImage(disk).header
  /\ isDirty = FALSE
  /\ editStack = <<>> /\ editPos = 0
  /\ savePc = "idle" /\ saveOut = <<>>
  /\ revertPc = "idle" /\ revertBytes = <<>>

\* the 'edit' message handler with msg.text = after
Edit(after) ==
  LET before == docText
  IN IF before = after
       THEN UNCHANGED vars
       ELSE /\ editPos < MaxEdits
            /\ docText' = after
            /\ isDirty' = TRUE
            /\ editStack' = Append(SubSeq(editStack, 1, editPos),
                                   [before |-> before, after |-> after])
            /\ editPos' = editPos + 1
            /\ UNCHANGED <<docHeader, disk, savePc, saveOut, revertPc, revertBytes>>
            /\ UNCHANGED codecVars

\* VS Code calls the undo closure of the last applied edit
Undo ==
  /\ editPos > 0
  /\ docText' = editStack[editPos].before
  /\ isDirty' = TRUE
  /\ editPos' = editPos - 1
  /\ UNCHANGED <<docHeader, disk, editStack, savePc, saveOut, revertPc, revertBytes>>
  /\ UNCHANGED codecVars

\* VS Code calls the redo closure of the next undone edit
Redo ==
  /\ editPos < Len(editStack)
  /\ docText' = editStack[editPos + 1].after
  /\ isDirty' = TRUE
  /\ editPos' = editPos + 1
  /\ UNCHANGED <<docHeader, disk, editStack, savePc, saveOut, revertPc, revertBytes>>
  /\ UNCHANGED codecVars

\* the arguments saveCustomDocument builds with
SaveArgs ==
  [script |-> docText,
   baseHeader |-> docHeader,
   defaultName |-> Coalesce(docHeader, "name", BootScript),
   defaultLoadAddr |-> Coalesce(docHeader, "loadAddr", U32(0)),
   defaultEntryPoint |-> Coalesce(docHeader, "entryPoint", U32(0))]

\* saveCustomDocument up to its await of writeFile
SaveBegin(cancelled, now) ==
  /\ savePc = "idle" /\ revertPc = "idle"
  /\ IF cancelled
       THEN UNCHANGED vars
       ELSE /\ saveOut' = buildLegacyScriptImage(SaveArgs, now)
            /\ savePc' = "writing"
            /\ UNCHANGED <<docText, docHeader, isDirty, disk, editStack, editPos,
                           revertPc, revertBytes>>
            /\ UNCHANGED codecVars

\* writeFile completes and saveCustomDocument resumes: markDirty(false)
SaveEnd ==
  /\ savePc = "writing"
  /\ disk' = saveOut
  /\ isDirty' = FALSE
  /\ savePc' = "idle"
  /\ saveOut' = <<>>
  /\ UNCHANGED <<docText, docHeader, editStack, editPos, revertPc, revertBytes>>
  /\ UNCHANGED codecVars

\* revertCustomDocument up to its await of readFile
RevertBegin(cancelled) ==
  /\ savePc = "idle" /\ revertPc = "idle"
  /\ IF cancelled
       THEN UNCHANGED vars
       ELSE /\ revertPc' = "reading"
            /\ revertBytes' = disk
            /\ UNCHANGED <<docText, docHeader, isDirty, disk, editStack, editPos,
                           savePc, saveOut>>
            /\ UNCHANGED codecVars

\* readFile completes and revertCustomDocument resumes: parse, replace the
\* state, markDirty(false); a parse that throws leaves the document as it is
RevertEnd ==
  /\ revertPc = "reading"
  /\ LET p == parseLegacyUImage(revertBytes)
     IN IF p.status = "returned"
          THEN /\ docText' = p.script
               /\ docHeader' = p.header
               /\ isDirty' = FALSE
          ELSE UNCHANGED <<docText, docHeader, isDirty>>
  /\ revertPc' = "idle"
  /\ revertBytes' = <<>>
  /\ UNCHANGED <<disk, editStack, editPos, savePc, saveOut>>
  /\ UNCHANGED codecVars

NextEditor ==
  \/ \E t \in EditorTexts : Edit(t)
  \/ Undo
  \/ Redo
  \/ \E c \in BOOLEAN, now \in SaveClocks : SaveBegin(c, now)
  \/ SaveEnd
  \/ \E c \in BOOLEAN : RevertBegin(c)
  \/ RevertEnd

SpecEditor == InitEditor /\ [][NextEditor]_vars

\* C10 (as claimed): whenever the document is clean and neither a save nor
\* a revert is in flight, the container stored at document.uri decodes to
\* document.state.text.
C10_CleanMeansSaved ==
  (~isDirty /\ savePc = "idle" /\ revertPc = "idle") =>
    /\ parseLegacyUImage(disk).status = "returned"
    /\ parseLegacyUImage(disk).script = docText

====
